---- MODULE Spec2Model ----
(***************************************************************************)
(* KY040 rotary encoder decoder (src/src/KY040.h).                         *)
(*                                                                         *)
(* The decoder is fed two-bit CLK/DT samples (setState), evaluates them    *)
(* against two four-step reference sequences (checkRotation), latches the  *)
(* last finished rotation (getAndResetLastRotation) and keeps a timestamp  *)
(* of the last sequence start for the sleep gate.                          *)
(***************************************************************************)
EXTENDS Integers, Sequences, FiniteSets, TLC

\* ---------------------------------------------------------------- constants
\* enum directions (KY040.h:65-71)
IDLE == 0
ACTIVE == 1
CLOCKWISE == 2
COUNTERCLOCKWISE == 3

\* #define PREVENTSLEEPMS 150 (KY040.h:55)
PREVENTSLEEPMS == 150
\* #define INITSTEP 0b11 (KY040.h:57)
INITSTEP == 3
\* #define MAXSEQUENCESTEPS 4 (KY040.h:59)
MAXSEQUENCESTEPS == 4
\* v_state = 255 in the constructor (KY040.h:83): no sample stored yet
NOSAMPLE == 255
\* bits of unsigned long, the type of millis() and of
\* v_lastSequenceStartMillis (KY040.h:237)
ClockBits == 32

\* c_signalSequenceCW / c_signalSequenceCCW (KY040.h:242, 244), indexed 1..4
\* here where the code indexes 0..3
c_signalSequenceCW == <<1, 0, 2, INITSTEP>>
c_signalSequenceCCW == <<2, 0, 1, INITSTEP>>

\* seq[i] of the code (0-based)
At(seq, i) == seq[i + 1]

\* ------------------------------------------------------------------- bounds
\* the clock is advanced only while it stays at or below this value
MaxClock == 152
\* number of evaluations the sliding window hist keeps
HistLen == 2
\* number of evaluations recorded since construction
MaxTrace == 6
\* number of unread completions / successive takes the latch log keeps
MaxLog == 2
\* number of times the clock is advanced in a run that observes the clock
MaxTicks == 3

\* an unsigned long is kept as <<high half, low half>>, each half of
\* ClockBits / 2 bits: its value is high * Half + low
Half == 2 ^ (ClockBits \div 2)
\* (unsigned long) n for a number n below Half * Half
UL(n) == <<(n \div Half) % Half, n % Half>>

\* two-bit CLK/DT codes a caller stores: (CLK << 1) + DT
Codes == 0 .. 3
\* amounts of time that pass between two operations
TickSteps == {UL(PREVENTSLEEPMS + 1)}
\* the same in a run that observes the clock: the settle window, and a full
\* turn of the clock (2^32 ms) less the settle window and one
ElapseSteps == {UL(PREVENTSLEEPMS), <<Half - 1, Half - PREVENTSLEEPMS - 1>>}

\* byte arithmetic: v_sequenceStep++ on a byte
ByteInc(x) == (x + 1) % 256
\* unsigned long addition a + b, modulo 2^32
ClockAdd(a, b) ==
    <<(a[1] + b[1] + (a[2] + b[2]) \div Half) % Half, (a[2] + b[2]) % Half>>
\* unsigned long subtraction a - b, modulo 2^32
ClockSub(a, b) ==
    <<(a[1] - b[1] - (IF a[2] < b[2] THEN 1 ELSE 0)) % Half,
      (a[2] - b[2]) % Half>>
\* a < b on unsigned long
ClockLess(a, b) == a[1] < b[1] \/ (a[1] = b[1] /\ a[2] < b[2])

VARIABLES
    v_state,                   \* volatile byte v_state
    v_lastResult,              \* volatile byte v_lastResult (the latch)
    v_lastSequenceStartMillis, \* volatile unsigned long
    v_sequenceStep,            \* volatile byte v_sequenceStep
    v_direction,               \* volatile byte v_direction
    v_oldState,                \* volatile byte v_oldState
    millis,                    \* the millisecond clock millis() reads
    observe,                   \* observer: which record this run keeps
    hist,                      \* observer: the last HistLen evaluations
    trace,                     \* observer: the evaluations since construction
    fresh,                     \* observer: trace is complete since construction
    latchLog,                  \* observer: completions and takes of the latch
    clockLog,                  \* observer: time since the last sequence start
    sreg_I,                    \* the global interrupt enable bit cli()/sei() set
    main,                      \* the main context inside an interruptible call
    isrLog                     \* observer: takes against interrupt completions

decoderVars == <<v_state, v_lastResult, v_lastSequenceStartMillis,
                 v_sequenceStep, v_direction, v_oldState>>
observerVars == <<observe, hist, trace, fresh, latchLog>>
contextVars == <<sreg_I, main>>
vars == <<v_state, v_lastResult, v_lastSequenceStartMillis, v_sequenceStep,
          v_direction, v_oldState, millis, observe, hist, trace, fresh, latchLog,
          clockLog, sreg_I, main, isrLog>>

\* the decoder's fields as one record
Decoder ==
    [v_state |-> v_state,
     v_lastResult |-> v_lastResult,
     v_lastSequenceStartMillis |-> v_lastSequenceStartMillis,
     v_sequenceStep |-> v_sequenceStep,
     v_direction |-> v_direction,
     v_oldState |-> v_oldState]

\* ------------------------------------------------------ the code, as operators
\* KY040::KY040 (KY040.h:79-89) at clock value t
Construct(t) ==
    [v_state |-> NOSAMPLE,
     v_lastResult |-> IDLE,
     v_lastSequenceStartMillis |-> t,
     v_sequenceStep |-> 0,
     v_direction |-> IDLE,
     v_oldState |-> INITSTEP]

\* mutant of BeginSequence: the sequence starts one step too far
BeginSequence_StepTwo(d, seq, dir, t) ==
    IF d.v_state = At(seq, 0)
    THEN [d EXCEPT !.v_direction = dir,
                   !.v_sequenceStep = 2,
                   !.v_lastSequenceStartMillis = t]
    ELSE d

\* KY040.h:108-112 and 113-117: one "begin of rotation" test at step 0
BeginSequence(d, seq, dir, t) ==
    IF d.v_state = At(seq, 0)
    THEN [d EXCEPT !.v_direction = dir,
                   !.v_sequenceStep = 1,
                   !.v_lastSequenceStartMillis = t]
    ELSE d

\* mutant of FinishOrActive: result read after v_direction was reset
FinishOrActive_ResultAfterReset(d, n) ==
    IF n >= MAXSEQUENCESTEPS
    THEN [dec |-> [d EXCEPT !.v_lastResult = IDLE,
                            !.v_direction = IDLE,
                            !.v_sequenceStep = 0],
          result |-> IDLE]
    ELSE [dec |-> [d EXCEPT !.v_sequenceStep = n], result |-> ACTIVE]

\* mutant of FinishOrActive: the latch is written only while it is empty
FinishOrActive_KeepFirst(d, n) ==
    IF n >= MAXSEQUENCESTEPS
    THEN [dec |-> [d EXCEPT !.v_lastResult = IF d.v_lastResult = IDLE
                                             THEN d.v_direction
                                             ELSE d.v_lastResult,
                            !.v_direction = IDLE,
                            !.v_sequenceStep = 0],
          result |-> d.v_direction]
    ELSE [dec |-> [d EXCEPT !.v_sequenceStep = n], result |-> ACTIVE]

\* mutant of FinishOrActive: v_direction is not reset at the end of a sequence
FinishOrActive_KeepDirection(d, n) ==
    IF n >= MAXSEQUENCESTEPS
    THEN [dec |-> [d EXCEPT !.v_lastResult = d.v_direction,
                            !.v_sequenceStep = 0],
          result |-> d.v_direction]
    ELSE [dec |-> [d EXCEPT !.v_sequenceStep = n], result |-> ACTIVE]

\* mutant of FinishOrActive: the latch follows the result of every step
FinishOrActive_LatchActive(d, n) ==
    IF n >= MAXSEQUENCESTEPS
    THEN [dec |-> [d EXCEPT !.v_lastResult = d.v_direction,
                            !.v_direction = IDLE,
                            !.v_sequenceStep = 0],
          result |-> d.v_direction]
    ELSE [dec |-> [d EXCEPT !.v_sequenceStep = n, !.v_lastResult = ACTIVE],
          result |-> ACTIVE]

\* KY040.h:123-128 and 140-145: the step has been incremented to n
FinishOrActive(d, n) ==
    IF n >= MAXSEQUENCESTEPS
    THEN [dec |-> [d EXCEPT !.v_lastResult = d.v_direction,
                            !.v_direction = IDLE,
                            !.v_sequenceStep = 0],
          result |-> d.v_direction]
    ELSE [dec |-> [d EXCEPT !.v_sequenceStep = n], result |-> ACTIVE]

\* mutant of InvalidSequence: every unexpected sample resets the sequence
InvalidSequence_AlwaysReset(d) ==
    [d EXCEPT !.v_direction = IDLE, !.v_sequenceStep = 0]

\* mutant of InvalidSequence: the idle code does not reset the sequence
InvalidSequence_NeverReset(d) == d

\* KY040.h:129-135 and 146-152: the sample is not the expected one
InvalidSequence(d) ==
    IF d.v_state = INITSTEP
    THEN [d EXCEPT !.v_direction = IDLE, !.v_sequenceStep = 0]
    ELSE d

\* KY040.h:121-135 and 138-152: one case of switch (v_direction)
FollowSequence(d, seq) ==
    IF d.v_state = At(seq, d.v_sequenceStep)
    THEN FinishOrActive(d, ByteInc(d.v_sequenceStep))
    ELSE [dec |-> InvalidSequence(d), result |-> IDLE]

\* mutant of SwitchDirection: both cases follow the clockwise table
SwitchDirection_SameTable(d) ==
    CASE d.v_direction = CLOCKWISE -> FollowSequence(d, c_signalSequenceCW)
      [] d.v_direction = COUNTERCLOCKWISE -> FollowSequence(d, c_signalSequenceCW)
      [] OTHER -> [dec |-> d, result |-> IDLE]

\* KY040.h:119-154: switch (v_direction), no default case
SwitchDirection(d) ==
    CASE d.v_direction = CLOCKWISE -> FollowSequence(d, c_signalSequenceCW)
      [] d.v_direction = COUNTERCLOCKWISE -> FollowSequence(d, c_signalSequenceCCW)
      [] OTHER -> [dec |-> d, result |-> IDLE]

\* mutant of StateChanged: the begin-of-rotation tests run at every step
StateChanged_BeginAnytime(d, t) ==
    IF d.v_state # d.v_oldState
    THEN LET r == IF d.v_sequenceStep = 0
                     \/ d.v_state \in {At(c_signalSequenceCW, 0),
                                        At(c_signalSequenceCCW, 0)}
                  THEN [dec |-> BeginSequence(
                                    BeginSequence(d, c_signalSequenceCW, CLOCKWISE, t),
                                    c_signalSequenceCCW, COUNTERCLOCKWISE, t),
                        result |-> IDLE]
                  ELSE SwitchDirection(d)
         IN  [dec |-> [r.dec EXCEPT !.v_oldState = r.dec.v_state],
              result |-> r.result]
    ELSE [dec |-> d, result |-> IDLE]

\* KY040.h:104-157: the state-changed block; result starts as IDLE
StateChanged(d, t) ==
    IF d.v_state # d.v_oldState
    THEN LET r == IF d.v_sequenceStep = 0
                  THEN [dec |-> BeginSequence(
                                    BeginSequence(d, c_signalSequenceCW, CLOCKWISE, t),
                                    c_signalSequenceCCW, COUNTERCLOCKWISE, t),
                        result |-> IDLE]
                  ELSE SwitchDirection(d)
         IN  [dec |-> [r.dec EXCEPT !.v_oldState = r.dec.v_state],
              result |-> r.result]
    ELSE [dec |-> d, result |-> IDLE]

\* mutant of PreventOverrun: the test is >= PREVENTSLEEPMS
PreventOverrun_AtLeast(d, t) ==
    IF ~ClockLess(ClockSub(t, d.v_lastSequenceStartMillis), UL(PREVENTSLEEPMS))
    THEN [d EXCEPT !.v_lastSequenceStartMillis =
                       ClockSub(ClockSub(t, UL(PREVENTSLEEPMS)), UL(1))]
    ELSE d

\* KY040.h:158-161: "Prevent unsigned long overrun"
PreventOverrun(d, t) ==
    IF ClockLess(UL(PREVENTSLEEPMS), ClockSub(t, d.v_lastSequenceStartMillis))
    THEN [d EXCEPT !.v_lastSequenceStartMillis =
                       ClockSub(ClockSub(t, UL(PREVENTSLEEPMS)), UL(1))]
    ELSE d

\* mutant of checkRotation: v_lastResult = result on every call
checkRotation_LatchEveryResult(d, t) ==
    LET r == StateChanged(d, t)
    IN  [dec |-> PreventOverrun([r.dec EXCEPT !.v_lastResult = r.result], t),
         result |-> r.result]

\* KY040::checkRotation (KY040.h:102-163) at clock value t
checkRotation(d, t) ==
    LET r == StateChanged(d, t)
    IN  [dec |-> PreventOverrun(r.dec, t), result |-> r.result]

\* KY040::setState (KY040.h:228-231)
setState(d, state) == [d EXCEPT !.v_state = state]

\* mutant of getRotation: CLK is shifted by two bits
getRotation_WideShift(d, clk, dt, t) ==
    checkRotation(setState(d, clk * 4 + dt), t)

\* KY040::getRotation (KY040.h:191-195): the pins read as clk and dt
getRotation(d, clk, dt, t) == checkRotation(setState(d, clk * 2 + dt), t)

\* mutant of getAndResetLastRotation: the latch is read but not reset
getAndResetLastRotation_NoReset(d) == [dec |-> d, result |-> d.v_lastResult]

\* KY040::getAndResetLastRotation (KY040.h:172-179)
getAndResetLastRotation(d) ==
    [dec |-> [d EXCEPT !.v_lastResult = IDLE], result |-> d.v_lastResult]

\* KY040::readyForSleep (KY040.h:220): lastStepMillis is the copy of the
\* timestamp made at line 218, t the clock value millis() returns at line 220
ElapsedLongEnough(lastStepMillis, t) ==
    ClockLess(UL(PREVENTSLEEPMS), ClockSub(t, lastStepMillis))

\* mutant of cli: interrupts stay as they are
cli_NoOp(i) == i

\* cli() (KY040.h:174, 217): the interrupt enable bit after it
cli(i) == FALSE

\* mutant of sei: the interrupt enable bit is left as cli() set it
sei_NoOp(i) == i

\* sei() (KY040.h:177, 219): the interrupt enable bit after it
sei(i) == TRUE

\* ------------------------------------------------------------------ observers
\* the last n elements of s
LastN(s, n) == IF Len(s) <= n THEN s ELSE SubSeq(s, Len(s) - n + 1, Len(s))

\* how many codes of the rotation part of seq (its first three codes) have
\* been seen in order, after code was seen with p of them seen before
Progress(p, code, seq) ==
    IF p < MAXSEQUENCESTEPS - 1 /\ code = At(seq, p) THEN p + 1 ELSE p

\* what one evaluation did: the sample evaluated, the state before and after,
\* and how much of each reference sequence the samples evaluated since the
\* decoder last had no sequence in progress contain in order (h is the
\* window before this evaluation)
Evaluation(h, d, r) ==
    LET restart == d.v_sequenceStep = 0 \/ h = <<>>
        cwBefore == IF restart THEN 0 ELSE h[Len(h)].cw
        ccwBefore == IF restart THEN 0 ELSE h[Len(h)].ccw
    IN  [code |-> d.v_state,
         old |-> d.v_oldState,
         step |-> d.v_sequenceStep,
         dir |-> d.v_direction,
         result |-> r.result,
         step2 |-> r.dec.v_sequenceStep,
         dir2 |-> r.dec.v_direction,
         old2 |-> r.dec.v_oldState,
         latchChanged |-> r.dec.v_lastResult # d.v_lastResult,
         latch2 |-> r.dec.v_lastResult,
         cw |-> Progress(cwBefore, d.v_state, c_signalSequenceCW),
         ccw |-> Progress(ccwBefore, d.v_state, c_signalSequenceCCW)]

\* the latch log after an evaluation that returned result
LogEvaluation(log, result) ==
    IF result \in {CLOCKWISE, COUNTERCLOCKWISE}
    THEN [unread |-> LastN(Append(log.unread, result), MaxLog),
          pending |-> <<>>,
          taken |-> <<>>]
    ELSE log

\* the latch log after a take that returned result
LogTake(log, result) ==
    [unread |-> <<>>,
     pending |-> IF log.taken = <<>> THEN log.unread ELSE log.pending,
     taken |-> IF Len(log.taken) < MaxLog THEN Append(log.taken, result)
               ELSE log.taken]

\* the clock log after an evaluation of decoder d at clock value t that gave
\* r: a sequence start was recorded when the step went from 0 to 1
ClockEvaluation(log, d, r, t) ==
    LET started == d.v_sequenceStep = 0 /\ r.dec.v_sequenceStep = 1
    IN  [log EXCEPT
            !.since = IF started THEN UL(0) ELSE log.since,
            !.turns = IF started THEN 0 ELSE log.turns,
            !.was = IF started THEN FALSE ELSE log.was,
            !.last = "eval",
            !.ready = FALSE,
            !.current = TRUE,
            !.wasBefore = FALSE,
            !.over = ElapsedLongEnough(d.v_lastSequenceStartMillis, t),
            !.started = started,
            !.moved = r.dec.v_lastSequenceStartMillis
                          # d.v_lastSequenceStartMillis]

\* the clock log after a readiness query that returned ready (what the log
\* says of the last operation only is reset by the next one); current says
\* that the timestamp the query copied is still the decoder's timestamp (no
\* evaluation changed it while the query ran)
ClockQuery(log, ready, current) ==
    [log EXCEPT !.last = "query",
                !.ready = ready,
                !.current = current,
                !.wasBefore = log.was,
                !.was = log.was \/ (ready /\ current),
                !.over = FALSE,
                !.started = FALSE,
                !.moved = FALSE]

\* the clock log after n milliseconds went by: the time since the last
\* sequence start is turns full turns of the clock and since milliseconds
ClockElapse(log, n) ==
    [log EXCEPT !.since = ClockAdd(log.since, n),
                !.turns = log.turns
                              + (IF ClockLess(ClockAdd(log.since, n), log.since)
                                 THEN 1 ELSE 0),
                !.ticks = log.ticks + 1,
                !.last = "tick",
                !.ready = FALSE,
                !.current = TRUE,
                !.wasBefore = FALSE,
                !.over = FALSE,
                !.started = FALSE,
                !.moved = FALSE]

\* more than the settle window has gone by since the last sequence start
SinceLongEnough(log) ==
    log.turns > 0 \/ ClockLess(UL(PREVENTSLEEPMS), log.since)

\* the interrupt log after an evaluation that returned result while the main
\* context was as m says
IsrEvaluation(log, result, m) ==
    [log EXCEPT
        !.unreturned = log.unreturned
                           \/ result \in {CLOCKWISE, COUNTERCLOCKWISE},
        !.inSection = log.inSection \/ m.section]

\* the interrupt log after a take read the latch value latch
IsrTakeRead(log, latch) ==
    [log EXCEPT !.twice = log.twice \/ (latch # IDLE /\ ~log.unreturned),
                !.unreturned = FALSE]

\* the interrupt log after a take cleared the latch
IsrTakeClear(log) ==
    [log EXCEPT !.lost = log.lost \/ log.unreturned,
                !.unreturned = FALSE]

\* the records a run can keep: a run keeps one of them, chosen at its start
Observers == {"window", "trace", "latch"}

\* the observers after an evaluation of decoder d that gave r
Observe(d, r) ==
    /\ hist' = IF observe = "window"
               THEN LastN(Append(hist, Evaluation(hist, d, r)), HistLen)
               ELSE hist
    /\ IF fresh /\ Len(trace) < MaxTrace
       THEN /\ trace' = Append(trace, [code |-> d.v_state, result |-> r.result])
            /\ fresh' = TRUE
       ELSE /\ trace' = <<>>
            /\ fresh' = FALSE
    /\ latchLog' = IF observe = "latch"
                   THEN LogEvaluation(latchLog, r.result)
                   ELSE latchLog
    /\ clockLog' = IF observe = "clock"
                   THEN ClockEvaluation(clockLog, d, r, millis)
                   ELSE clockLog
    /\ isrLog' = IF observe = "isr"
                 THEN IsrEvaluation(isrLog, r.result, main)
                 ELSE isrLog
    /\ UNCHANGED observe

\* the results of setState(code) + checkRotation() for each code of codes in
\* turn, starting from decoder d
RECURSIVE Feed(_, _, _)
Feed(d, codes, t) ==
    IF codes = <<>>
    THEN <<>>
    ELSE LET r == checkRotation(setState(d, Head(codes)), t)
         IN  <<r.result>> \o Feed(r.dec, Tail(codes), t)

\* -------------------------------------------------------------------- actions
Store(d) ==
    /\ v_state' = d.v_state
    /\ v_lastResult' = d.v_lastResult
    /\ v_lastSequenceStartMillis' = d.v_lastSequenceStartMillis
    /\ v_sequenceStep' = d.v_sequenceStep
    /\ v_direction' = d.v_direction
    /\ v_oldState' = d.v_oldState

InitWith(mode) ==
    /\ millis = UL(0)
    /\ v_state = Construct(millis).v_state
    /\ v_lastResult = Construct(millis).v_lastResult
    /\ v_lastSequenceStartMillis = Construct(millis).v_lastSequenceStartMillis
    /\ v_sequenceStep = Construct(millis).v_sequenceStep
    /\ v_direction = Construct(millis).v_direction
    /\ v_oldState = Construct(millis).v_oldState
    /\ observe = mode
    /\ hist = <<>>
    /\ trace = <<>>
    /\ fresh = (observe = "trace")
    /\ latchLog = [unread |-> <<>>, pending |-> <<>>, taken |-> <<>>]
    /\ clockLog = [since |-> UL(0), turns |-> 0, ticks |-> 0, last |-> "init",
                   ready |-> FALSE, current |-> TRUE,
                   was |-> FALSE, wasBefore |-> FALSE, over |-> FALSE,
                   started |-> FALSE, moved |-> FALSE]
    /\ sreg_I = TRUE
    /\ main = [pc |-> "idle", local |-> 0, lastStepMillis |-> UL(0),
               section |-> FALSE, called |-> FALSE,
               entryI |-> TRUE, exitI |-> TRUE, done |-> "none"]
    /\ isrLog = [unreturned |-> FALSE, lost |-> FALSE, twice |-> FALSE,
                 inSection |-> FALSE]

Init == \E mode \in Observers : InitWith(mode)

\* a caller stores a sample: setState(state)
SetState(state) ==
    /\ Store(setState(Decoder, state))
    /\ UNCHANGED <<millis, observe, hist, trace, fresh, latchLog>>
    /\ UNCHANGED <<clockLog, sreg_I, main, isrLog>>

\* a caller evaluates the stored sample: checkRotation()
CheckRotation ==
    LET r == checkRotation(Decoder, millis)
    IN  /\ Store(r.dec)
        /\ Observe(Decoder, r)
        /\ UNCHANGED <<millis, sreg_I, main>>

\* getRotation() (KY040.h:191-195): the pins read as clk, dt
GetRotation(clk, dt) ==
    LET d == setState(Decoder, clk * 2 + dt)
        r == getRotation(Decoder, clk, dt, millis)
    IN  /\ Store(r.dec)
        /\ Observe(d, r)
        /\ UNCHANGED <<millis, sreg_I, main>>

\* the main context takes the latch: getAndResetLastRotation()
GetAndResetLastRotation ==
    LET r == getAndResetLastRotation(Decoder)
    IN  /\ Store(r.dec)
        /\ latchLog' = IF observe = "latch"
                       THEN LogTake(latchLog, r.result)
                       ELSE latchLog
        /\ sreg_I' = sei(cli(sreg_I))
        /\ UNCHANGED <<millis, observe, hist, trace, fresh>>
        /\ UNCHANGED <<clockLog, main, isrLog>>

\* time passes between two operations
Tick(n) ==
    /\ ~ClockLess(UL(MaxClock), ClockAdd(millis, n))
    /\ ~ClockLess(ClockAdd(millis, n), millis)
    /\ millis' = ClockAdd(millis, n)
    /\ UNCHANGED decoderVars
    /\ UNCHANGED observerVars
    /\ UNCHANGED <<clockLog, sreg_I, main, isrLog>>

Next ==
    \/ \E state \in Codes : SetState(state)
    \/ CheckRotation
    \/ \E clk \in 0 .. 1, dt \in 0 .. 1 : GetRotation(clk, dt)
    \/ GetAndResetLastRotation
    \/ \E n \in TickSteps : Tick(n)

Spec == Init /\ [][Next]_vars

\* ------------------------------------------------- runs that observe the clock
\* n milliseconds go by with no operation of the decoder
Elapse(n) ==
    /\ clockLog.ticks < MaxTicks
    /\ millis' = ClockAdd(millis, n)
    /\ clockLog' = ClockElapse(clockLog, n)
    /\ UNCHANGED decoderVars
    /\ UNCHANGED observerVars
    /\ UNCHANGED <<sreg_I, main, isrLog>>

\* ------------------------------------- runs with the decoder in an interrupt
\* the pin change interrupt (src/unnamed/part_000:22-32): it is delivered
\* only while interrupts are enabled and runs getRotation() to its end
PinChangeISR(clk, dt) ==
    /\ sreg_I
    /\ GetRotation(clk, dt)

\* the caller opens a critical section of its own: cli() (part_000:47)
CallerCli ==
    /\ main.pc = "idle"
    /\ ~main.section
    /\ sreg_I' = cli(sreg_I)
    /\ main' = [main EXCEPT !.section = TRUE, !.called = FALSE]
    /\ UNCHANGED decoderVars
    /\ UNCHANGED observerVars
    /\ UNCHANGED <<millis, clockLog, isrLog>>

\* the caller closes its critical section: sei() (part_000:49)
CallerSei ==
    /\ main.pc = "idle"
    /\ main.section
    /\ sreg_I' = sei(sreg_I)
    /\ main' = [main EXCEPT !.section = FALSE, !.called = FALSE]
    /\ UNCHANGED decoderVars
    /\ UNCHANGED observerVars
    /\ UNCHANGED <<millis, clockLog, isrLog>>

\* getAndResetLastRotation(), KY040.h:174: cli()
TakeCli ==
    /\ main.pc = "idle"
    /\ sreg_I' = cli(sreg_I)
    /\ main' = [main EXCEPT !.pc = "take_read", !.entryI = sreg_I]
    /\ UNCHANGED decoderVars
    /\ UNCHANGED observerVars
    /\ UNCHANGED <<millis, clockLog, isrLog>>

\* getAndResetLastRotation(), KY040.h:175: byte result = v_lastResult
TakeRead ==
    /\ main.pc = "take_read"
    /\ main' = [main EXCEPT !.pc = "take_clear", !.local = v_lastResult]
    /\ isrLog' = IsrTakeRead(isrLog, v_lastResult)
    /\ UNCHANGED decoderVars
    /\ UNCHANGED observerVars
    /\ UNCHANGED <<millis, clockLog, sreg_I>>

\* getAndResetLastRotation(), KY040.h:176: v_lastResult = IDLE
TakeClear ==
    /\ main.pc = "take_clear"
    /\ Store([Decoder EXCEPT !.v_lastResult = IDLE])
    /\ main' = [main EXCEPT !.pc = "take_sei"]
    /\ isrLog' = IsrTakeClear(isrLog)
    /\ UNCHANGED observerVars
    /\ UNCHANGED <<millis, clockLog, sreg_I>>

\* getAndResetLastRotation(), KY040.h:177-178: sei(); return result
TakeSei ==
    /\ main.pc = "take_sei"
    /\ sreg_I' = sei(sreg_I)
    /\ main' = [main EXCEPT !.pc = "idle", !.exitI = sreg_I', !.done = "take",
                            !.called = main.section]
    /\ UNCHANGED decoderVars
    /\ UNCHANGED observerVars
    /\ UNCHANGED <<millis, clockLog, isrLog>>

\* readyForSleep(), KY040.h:217: cli()
SleepCli ==
    /\ main.pc = "idle"
    /\ sreg_I' = cli(sreg_I)
    /\ main' = [main EXCEPT !.pc = "sleep_read", !.entryI = sreg_I]
    /\ UNCHANGED decoderVars
    /\ UNCHANGED observerVars
    /\ UNCHANGED <<millis, clockLog, isrLog>>

\* readyForSleep(), KY040.h:218: lastStepMillis = v_lastSequenceStartMillis
SleepRead ==
    /\ main.pc = "sleep_read"
    /\ main' = [main EXCEPT !.pc = "sleep_sei",
                            !.lastStepMillis = v_lastSequenceStartMillis]
    /\ UNCHANGED decoderVars
    /\ UNCHANGED observerVars
    /\ UNCHANGED <<millis, clockLog, sreg_I, isrLog>>

\* readyForSleep(), KY040.h:219: sei()
SleepSei ==
    /\ main.pc = "sleep_sei"
    /\ sreg_I' = sei(sreg_I)
    /\ main' = [main EXCEPT !.pc = "sleep_return"]
    /\ UNCHANGED decoderVars
    /\ UNCHANGED observerVars
    /\ UNCHANGED <<millis, clockLog, isrLog>>

\* readyForSleep(), KY040.h:220: return (millis()-lastStepMillis >
\* PREVENTSLEEPMS), with interrupts enabled since line 219
SleepReturn ==
    LET ready == ElapsedLongEnough(main.lastStepMillis, millis)
    IN  /\ main.pc = "sleep_return"
        /\ main' = [main EXCEPT !.pc = "idle", !.exitI = sreg_I,
                                !.done = "sleep", !.called = main.section,
                                !.local = IF ready THEN 1 ELSE 0]
        /\ clockLog' = IF observe = "clock"
                       THEN ClockQuery(clockLog, ready,
                                       main.lastStepMillis
                                           = v_lastSequenceStartMillis)
                       ELSE clockLog
        /\ UNCHANGED decoderVars
        /\ UNCHANGED observerVars
        /\ UNCHANGED <<millis, sreg_I, isrLog>>

InitIsr == InitWith("isr")

NextIsr ==
    \/ \E clk \in 0 .. 1, dt \in 0 .. 1 : PinChangeISR(clk, dt)
    \/ CallerCli
    \/ CallerSei
    \/ TakeCli
    \/ TakeRead
    \/ TakeClear
    \/ TakeSei
    \/ SleepCli
    \/ SleepRead
    \/ SleepSei
    \/ SleepReturn
    \/ \E n \in TickSteps : Tick(n)

SpecIsr == InitIsr /\ [][NextIsr]_vars

\* the decoder in the interrupt, the main context asking the sleep gate, and
\* any amount of time going by between two steps
InitClock == InitWith("clock")

NextClock ==
    \/ \E clk \in 0 .. 1, dt \in 0 .. 1 : PinChangeISR(clk, dt)
    \/ SleepCli
    \/ SleepRead
    \/ SleepSei
    \/ SleepReturn
    \/ \E n \in ElapseSteps : Elapse(n)

SpecClock == InitClock /\ [][NextClock]_vars

\* ------------------------------------------------------------------- claims
\* helpers of the statements below
NoSequence == v_direction = IDLE /\ v_sequenceStep = 0
InProgress(r) == r.dir \in {CLOCKWISE, COUNTERCLOCKWISE} /\ r.step \in 1 .. 3
ExpectedCode(r) ==
    IF r.dir = CLOCKWISE THEN At(c_signalSequenceCW, r.step)
    ELSE At(c_signalSequenceCCW, r.step)
StartDirection(code) ==
    IF code = At(c_signalSequenceCW, 0) THEN CLOCKWISE ELSE COUNTERCLOCKWISE
TraceCodes == [i \in 1 .. Len(trace) |-> trace[i].code]
TraceResults == [i \in 1 .. Len(trace) |-> trace[i].result]

\* C1: in every reachable state with no sequence in progress, feeding the
\* codes 1, 0, 2, 3, one per setState() + checkRotation(), makes the fourth
\* evaluation return CLOCKWISE, whatever the previous sample was.
C1_ClockwiseFromIdle ==
    NoSequence => Feed(Decoder, <<1, 0, 2, 3>>, millis)[4] = CLOCKWISE

\* C1 witness: a run in which the previous sample was 0, no sequence was in
\* progress, and the evaluations of 1, 0, 2, 3 ended with CLOCKWISE.
C1_Witness ==
    /\ fresh
    /\ TraceCodes = <<0, 1, 0, 2, 3>>
    /\ trace[1].result = IDLE
    /\ trace[5].result = CLOCKWISE

\* C2: in every reachable state with no sequence in progress, feeding the
\* codes 2, 0, 1, 3 makes the fourth evaluation return COUNTERCLOCKWISE,
\* whatever the previous sample was.
C2_CounterClockwiseFromIdle ==
    NoSequence => Feed(Decoder, <<2, 0, 1, 3>>, millis)[4] = COUNTERCLOCKWISE

\* C2 witness: previous sample 0, no sequence in progress, then 2, 0, 1, 3
\* evaluated and the last evaluation returned COUNTERCLOCKWISE.
C2_Witness ==
    /\ fresh
    /\ TraceCodes = <<0, 2, 0, 1, 3>>
    /\ trace[1].result = IDLE
    /\ trace[5].result = COUNTERCLOCKWISE

\* C3 (as claimed): on a fresh decoder 3,1,0,2,3 returns idle, active, active,
\* active, clockwise and 3,2,0,1,3 returns idle, active, active, active,
\* counterclockwise; every evaluation of the sequence before the completing
\* one, the one that detects the start included, returns ACTIVE.
C3_ScenarioAsClaimed ==
    /\ (fresh /\ TraceCodes = <<3, 1, 0, 2, 3>>)
           => TraceResults = <<IDLE, ACTIVE, ACTIVE, ACTIVE, CLOCKWISE>>
    /\ (fresh /\ TraceCodes = <<3, 2, 0, 1, 3>>)
           => TraceResults = <<IDLE, ACTIVE, ACTIVE, ACTIVE, COUNTERCLOCKWISE>>
    /\ \A i \in 1 .. Len(hist) :
           (hist[i].step = 0 /\ hist[i].step2 = 1) => hist[i].result = ACTIVE

\* C4 (as claimed): on a fresh decoder 3,1,2,0,2,3 returns idle, active,
\* active, active, active, clockwise; an evaluation that ignores an
\* off-sequence, non-idle sample during a sequence returns ACTIVE.
C4_GlitchScenarioAsClaimed ==
    /\ (fresh /\ TraceCodes = <<3, 1, 2, 0, 2, 3>>)
           => TraceResults = <<IDLE, ACTIVE, ACTIVE, ACTIVE, ACTIVE, CLOCKWISE>>
    /\ \A i \in 1 .. Len(hist) :
           (/\ InProgress(hist[i])
            /\ hist[i].code # hist[i].old
            /\ hist[i].code # ExpectedCode(hist[i])
            /\ hist[i].code # INITSTEP) => hist[i].result = ACTIVE

\* C5: debounce. With a sequence in progress, an evaluated sample that is
\* neither the expected code nor the idle code leaves direction and
\* sequenceStep as they are, and the expected code advances sequenceStep by
\* one, or completes the sequence at the last step.
C5_Debounce ==
    \A i \in 1 .. Len(hist) :
        LET r == hist[i] IN
        InProgress(r) =>
            /\ (r.code # ExpectedCode(r) /\ r.code # INITSTEP)
                   => (r.dir2 = r.dir /\ r.step2 = r.step)
            /\ (r.code = ExpectedCode(r))
                   => IF r.step = MAXSEQUENCESTEPS - 1
                      THEN r.dir2 = IDLE /\ r.step2 = 0 /\ r.result = r.dir
                      ELSE r.dir2 = r.dir /\ r.step2 = r.step + 1

\* C5 witness: a changed, off-sequence, non-idle sample was ignored at step 1
\* and the expected code evaluated next advanced the sequence to step 2.
C5_Witness ==
    /\ Len(hist) = 2
    /\ InProgress(hist[1])
    /\ hist[1].step = 1
    /\ hist[1].code # hist[1].old
    /\ hist[1].code \notin {ExpectedCode(hist[1]), INITSTEP}
    /\ hist[2].code = ExpectedCode(hist[2])
    /\ hist[2].step2 = 2

\* C6: abort. With a sequence in progress, evaluating the idle code leaves
\* direction none and sequenceStep 0; at step 1 or 2 that evaluation returns
\* IDLE and leaves the latch alone; and with no sequence in progress (as after
\* the abort) a step-0 code starts a sequence of its direction at step 1.
C6_Abort ==
    \A i \in 1 .. Len(hist) :
        LET r == hist[i] IN
        /\ (InProgress(r) /\ r.code = INITSTEP)
               => /\ r.dir2 = IDLE
                  /\ r.step2 = 0
                  /\ (r.step \in {1, 2} => r.result = IDLE /\ ~r.latchChanged)
        /\ (r.dir = IDLE /\ r.step = 0 /\ r.code \in {1, 2})
               => (r.dir2 = StartDirection(r.code) /\ r.step2 = 1)

\* C6 witness: a clockwise sequence was aborted at step 2 by the idle code
\* and the next evaluation started a counter-clockwise sequence.
C6_Witness ==
    /\ Len(hist) = 2
    /\ hist[1].dir = CLOCKWISE
    /\ hist[1].step = 2
    /\ hist[1].code = INITSTEP
    /\ hist[1].result = IDLE
    /\ hist[2].code = 2
    /\ hist[2].dir2 = COUNTERCLOCKWISE
    /\ v_sequenceStep = 1

\* C7: an evaluation whose sample equals the previous sample changes none of
\* sequenceStep, direction, previousState and the latch.
C7_RepeatedSampleNoOp ==
    \A i \in 1 .. Len(hist) :
        LET r == hist[i] IN
        r.code = r.old =>
            /\ r.step2 = r.step
            /\ r.dir2 = r.dir
            /\ r.old2 = r.old
            /\ ~r.latchChanged

\* C7 witness: the same sample was evaluated again during a sequence while
\* the latch held an unread rotation.
C7_Witness ==
    /\ hist # <<>>
    /\ hist[Len(hist)].code = hist[Len(hist)].old
    /\ InProgress(hist[Len(hist)])
    /\ v_lastResult = COUNTERCLOCKWISE

\* C8 (as claimed): an evaluation whose sample equals the previous sample
\* returns IDLE with no sequence in progress and ACTIVE with one in progress.
C8_RepeatedSampleResultAsClaimed ==
    \A i \in 1 .. Len(hist) :
        LET r == hist[i] IN
        r.code = r.old =>
            r.result = (IF InProgress(r) THEN ACTIVE ELSE IDLE)

\* C9: latch read-once. After an evaluation returned CLOCKWISE or
\* COUNTERCLOCKWISE, the next getAndResetLastRotation() returns the direction
\* of the latest completion, whatever was evaluated in between without
\* completing, and further calls with no completion in between return IDLE.
C9_LatchReadOnce ==
    /\ (latchLog.taken # <<>> /\ latchLog.pending # <<>>)
           => latchLog.taken[1] = latchLog.pending[Len(latchLog.pending)]
    /\ \A i \in 2 .. Len(latchLog.taken) : latchLog.taken[i] = IDLE

\* C9 witness: a completion, then two takes, the first returning the
\* direction and the second IDLE, with a new sequence already in progress.
C9_Witness ==
    /\ latchLog.pending = <<COUNTERCLOCKWISE>>
    /\ latchLog.taken = <<COUNTERCLOCKWISE, IDLE>>
    /\ v_sequenceStep = 2

\* C10: latch overwrite. The latch holds the most recent unread completion
\* only: when two rotations complete with no take between them, the next
\* take returns the direction of the second and the following one none.
C10_LatchOverwrite ==
    /\ (latchLog.unread # <<>>)
           => v_lastResult = latchLog.unread[Len(latchLog.unread)]
    /\ (Len(latchLog.pending) >= 2 /\ latchLog.taken # <<>>)
           => /\ latchLog.taken[1] = latchLog.pending[Len(latchLog.pending)]
              /\ v_lastResult = IDLE
              /\ \A i \in 2 .. Len(latchLog.taken) : latchLog.taken[i] = IDLE

\* C10 witness: CLOCKWISE then COUNTERCLOCKWISE completed with no take in
\* between; the takes that followed returned COUNTERCLOCKWISE, then IDLE.
C10_Witness ==
    /\ latchLog.pending = <<CLOCKWISE, COUNTERCLOCKWISE>>
    /\ latchLog.taken = <<COUNTERCLOCKWISE, IDLE>>

\* the elapsed time the code computes: millis() - v_lastSequenceStartMillis
Elapsed == ClockSub(millis, v_lastSequenceStartMillis)
\* Elapsed is at most n milliseconds
ElapsedAtMost(n) == ~ClockLess(UL(n), Elapsed)

\* C12 (as claimed): readyForSleep() returns false at every query made while
\* at most 150 ms have gone by since a sequence start was recorded (or since
\* construction), and true once more than 150 ms have gone by with no
\* further sequence start.
C12_ReadinessAsClaimed ==
    clockLog.last = "query" =>
        clockLog.ready = SinceLongEnough(clockLog)

\* C13 (as claimed): once readyForSleep() has returned true it does not
\* return false again until a new sequence start is recorded, whatever the
\* clock does in between, a full turn of the clock with no evaluation
\* included. Stated of the queries during which no evaluation changed the
\* timestamp: after such a query returned true and with no sequence start
\* since, such a query returns true.
C13_WraparoundAsClaimed ==
    (clockLog.last = "query" /\ clockLog.current /\ clockLog.wasBefore)
        => clockLog.ready

\* C19: timestamp clamp. Right after every checkRotation() the elapsed time
\* since v_lastSequenceStartMillis, modulo the clock width, is at most 151 ms,
\* and exactly 151 ms when the clamp acted; the clamp leaves the timestamp
\* alone when the elapsed time is at most 150 ms, so while at most 150 ms have
\* gone by since a sequence start the timestamp is that of the start.
C19_TimestampClamp ==
    /\ clockLog.last = "eval" =>
           /\ ElapsedAtMost(PREVENTSLEEPMS + 1)
           /\ (~clockLog.over /\ ~clockLog.started) => ~clockLog.moved
           /\ (clockLog.over /\ ~clockLog.started)
                  => Elapsed = UL(PREVENTSLEEPMS + 1)
    /\ (observe = "clock" /\ ~SinceLongEnough(clockLog))
           => Elapsed = clockLog.since

\* C19 witness: an evaluation more than a full turn of the clock after the
\* last sequence start moved the timestamp to 151 ms before the clock.
C19_Witness ==
    /\ clockLog.last = "eval"
    /\ clockLog.over
    /\ clockLog.moved
    /\ clockLog.turns > 0
    /\ Elapsed = UL(PREVENTSLEEPMS + 1)

\* C14: at every operation boundary sequenceStep is in 0..3 and is 0 exactly
\* when direction is none; an evaluation that takes the step to 4 (the
\* expected code at step 3) leaves direction none and sequenceStep 0.
C14_StepAndDirection ==
    /\ v_sequenceStep \in 0 .. MAXSEQUENCESTEPS - 1
    /\ (v_sequenceStep = 0) <=> (v_direction = IDLE)
    /\ \A i \in 1 .. Len(hist) :
           LET r == hist[i] IN
           /\ (r.step2 = 0) <=> (r.dir2 = IDLE)
           /\ (r.step = MAXSEQUENCESTEPS - 1 /\ r.code = ExpectedCode(r)
                   /\ r.code # r.old)
                  => (r.step2 = 0 /\ r.dir2 = IDLE)
           /\ r.result \in {CLOCKWISE, COUNTERCLOCKWISE}
                  => (r.step2 = 0 /\ r.dir2 = IDLE)

\* C14 witness: the last evaluation completed a clockwise sequence at step 3
\* and left direction none and sequenceStep 0.
C14_Witness ==
    /\ hist # <<>>
    /\ hist[Len(hist)].step = MAXSEQUENCESTEPS - 1
    /\ hist[Len(hist)].dir = CLOCKWISE
    /\ hist[Len(hist)].result = CLOCKWISE
    /\ v_sequenceStep = 0
    /\ v_direction = IDLE

\* C15 (as claimed): v_state and v_oldState are in {0,1,2,3} in every
\* reachable state, the freshly constructed decoder and the state after a
\* checkRotation() before any setState() included.
C15_StatesAsClaimed == v_state \in Codes /\ v_oldState \in Codes

\* C15 (amended): v_state and v_oldState are in {0,1,2,3,255}; v_state is 255
\* only until the first sample is stored and stays in {0,1,2,3} from then on,
\* and after every checkRotation() v_oldState is the sample that was
\* evaluated, so it is 255 only after an evaluation with no sample stored.
C15_StatesOrNoSample ==
    /\ [](/\ v_state \in Codes \cup {NOSAMPLE}
          /\ v_oldState \in Codes \cup {NOSAMPLE}
          /\ \A i \in 1 .. Len(hist) : hist[i].old2 = hist[i].code)
    /\ [][(v_state \in Codes) => (v_state' \in Codes)]_vars

\* C15 witness: checkRotation() was called before any setState() and left
\* both v_state and v_oldState at 255.
C15_Witness ==
    /\ v_state = NOSAMPLE
    /\ v_oldState = NOSAMPLE
    /\ Len(hist) = 1
    /\ hist[1].old = INITSTEP

\* C16: checkRotation() returns CLOCKWISE only when the sample is the idle
\* code 3 and the samples evaluated since the decoder last had no sequence in
\* progress contain 1, 0, 2 in that order; COUNTERCLOCKWISE only on sample 3
\* after 2, 0, 1 in that order; an idle code at step 1 or 2 reports nothing.
C16_FullSequenceOnly ==
    \A i \in 1 .. Len(hist) :
        LET r == hist[i] IN
        /\ r.result = CLOCKWISE
               => (r.code = INITSTEP /\ r.cw = MAXSEQUENCESTEPS - 1)
        /\ r.result = COUNTERCLOCKWISE
               => (r.code = INITSTEP /\ r.ccw = MAXSEQUENCESTEPS - 1)
        /\ (InProgress(r) /\ r.step < MAXSEQUENCESTEPS - 1 /\ r.code = INITSTEP)
               => r.result \notin {CLOCKWISE, COUNTERCLOCKWISE}

\* C16 witness: a counter-clockwise sequence was aborted by the idle code at
\* step 2 without a report although 2, 0 had been seen, and the decoder has
\* no sequence in progress.
C16_Witness ==
    /\ Len(hist) = 2
    /\ hist[1].dir = COUNTERCLOCKWISE
    /\ hist[1].code = 0
    /\ hist[1].step2 = 2
    /\ hist[2].code = INITSTEP
    /\ hist[2].ccw = 2
    /\ hist[2].result = IDLE
    /\ NoSequence

\* the step-0 code of the direction other than dir
OtherStart(dir) ==
    IF dir = CLOCKWISE THEN At(c_signalSequenceCCW, 0)
    ELSE At(c_signalSequenceCW, 0)

\* C17: while a sequence is in progress no step of the program changes
\* direction to the other direction: direction changes only to none, only
\* when the sample evaluated is the idle code 3, and an evaluation of the
\* step-0 code of the other direction leaves direction as it is.
C17_NoDirectReversal ==
    [][(v_direction \in {CLOCKWISE, COUNTERCLOCKWISE}) =>
           /\ v_direction' \in {v_direction, IDLE}
           /\ v_direction' = IDLE => v_state' = INITSTEP
           /\ v_state' = OtherStart(v_direction) => v_direction' = v_direction]_vars

\* C17 witness: with a clockwise sequence at step 1 the step-0 code of the
\* counter-clockwise sequence was evaluated as a changed sample and the
\* sequence is still clockwise at step 1.
C17_Witness ==
    /\ hist # <<>>
    /\ hist[Len(hist)].dir = CLOCKWISE
    /\ hist[Len(hist)].step = 1
    /\ hist[Len(hist)].code = OtherStart(CLOCKWISE)
    /\ hist[Len(hist)].code # hist[Len(hist)].old
    /\ v_direction = CLOCKWISE
    /\ v_sequenceStep = 1

\* C18: an evaluation that returns CLOCKWISE or COUNTERCLOCKWISE leaves the
\* returned value in the latch; one that returns IDLE or ACTIVE leaves the
\* latch as it was; the latch holds none, clockwise or counterclockwise only;
\* and a step that clears a set latch is a getAndResetLastRotation().
C18_LatchFrame ==
    /\ [](/\ v_lastResult \in {IDLE, CLOCKWISE, COUNTERCLOCKWISE}
          /\ \A i \in 1 .. Len(hist) :
                 LET r == hist[i] IN
                 /\ r.result \in {CLOCKWISE, COUNTERCLOCKWISE}
                        => r.latch2 = r.result
                 /\ r.result \in {IDLE, ACTIVE} => ~r.latchChanged
                 /\ r.latch2 \in {IDLE, CLOCKWISE, COUNTERCLOCKWISE})
    /\ [][(v_lastResult # IDLE /\ v_lastResult' = IDLE)
              => Decoder' = getAndResetLastRotation(Decoder).dec]_vars

\* C18 witness: with CLOCKWISE in the latch an evaluation returned ACTIVE and
\* left it there, and the next one returned COUNTERCLOCKWISE and stored it.
C18_Witness ==
    /\ Len(hist) = 2
    /\ hist[1].result = ACTIVE
    /\ hist[1].latch2 = CLOCKWISE
    /\ hist[2].result = COUNTERCLOCKWISE
    /\ hist[2].latchChanged
    /\ v_lastResult = COUNTERCLOCKWISE

\* C11: with the interrupt handler running setState() + checkRotation() at any
\* point of the main context where interrupts are enabled, a take never clears
\* a completion it did not return and never returns a completion a take has
\* returned before; between its read and its clear the latch is what it read.
C11_AtomicTake ==
    /\ ~isrLog.lost
    /\ ~isrLog.twice
    /\ main.pc = "take_clear" => main.local = v_lastResult
    /\ main.pc = "take_sei" => (v_lastResult = IDLE /\ ~isrLog.unreturned)

\* C11 witness: the interrupt handler completed a rotation while the main
\* context was outside a take, and the take that followed has read it and is
\* about to clear it.
C11_Witness ==
    /\ observe = "isr"
    /\ main.pc = "take_clear"
    /\ main.local = COUNTERCLOCKWISE
    /\ main.entryI
    /\ ~sreg_I
    /\ ~isrLog.unreturned

\* C20: getAndResetLastRotation() and readyForSleep() return with interrupts
\* enabled whatever the interrupt enable bit was on entry; a critical section
\* of the caller keeps interrupts disabled until one of them is called in it
\* and has them enabled from the return of that call on.
C20_InterruptsEnabledOnReturn ==
    /\ main.done # "none" => main.exitI
    /\ (main.pc = "idle" /\ main.done # "none" /\ main.called) => sreg_I
    /\ (main.pc = "idle" /\ main.section /\ ~main.called) => ~sreg_I

\* C20 witness: a take entered inside the caller's cli()/sei() section, with
\* interrupts disabled, has returned with interrupts enabled, and the
\* interrupt handler has run inside the section since.
C20_Witness ==
    /\ main.pc = "idle"
    /\ main.section
    /\ main.called
    /\ main.done = "take"
    /\ ~main.entryI
    /\ main.exitI
    /\ isrLog.inSection

====
